---- MODULE Spec2Model ----
(***************************************************************************)
(* Model of src/core/Recoil_State.js: the tree-state version allocator,   *)
(* the TreeState / StoreState factories, and the transaction protocol of  *)
(* the Store facade that the file declares.                               *)
(*                                                                        *)
(* JavaScript objects have identity, so they live in heaps: `trees` holds *)
(* the TreeState objects and `heap` the Set / Map / Array / Graph objects *)
(* a StoreState points to.  A reference is an index into its heap; 0 is   *)
(* null.  Maps are sets of <<key, value>> pairs.                          *)
(***************************************************************************)
EXTENDS Integers, Sequences, FiniteSets, TLC

\* ---- bounds of the model ----
MaxAllocs == 3          \* calls of getNextTreeStateVersion in one run
MaxTrees == 3           \* TreeState objects in one run
MaxStores == 2          \* StoreState objects in one run
MaxMutations == 1       \* container edits made by callers in one run

\* versions a caller writes into a TreeState of its own: one the allocator
\* issues first, and one it never issues within MaxAllocs allocations
ForeignVersions == {0, MaxAllocs}

NodeKeys == {"x"}

VARIABLES
    nextTreeStateVersion,  \* the module-level counter
    trees,                 \* heap of TreeState objects
    heap,                  \* heap of container objects
    stores,                \* heap of StoreState objects
    returned,              \* history: every value getNextTreeStateVersion returned
    direct,                \* history: values returned to direct callers
    madeBy,                \* history: who constructed trees[i]
    versionLog,            \* history: successive currentTree.version of stores[s]
    mutations,             \* history: number of container edits so far
    last                   \* history: the last call and what it returned

vars == <<nextTreeStateVersion, trees, heap, stores, returned, direct, madeBy,
          versionLog, mutations, last>>

\* ---- containers ----
NewSet == [kind |-> "Set", elems |-> {}]
NewMap == [kind |-> "Map", elems |-> {}]
NewArray == [kind |-> "Array", elems |-> <<>>]

\* graph() of Recoil_Graph: an empty dependency graph
graph == [kind |-> "Graph", elems |-> {}]

\* Map.prototype.set(k, v)
MapSet(m, k, v) == [m EXCEPT !.elems = {e \in @ : e[1] # k} \cup {<<k, v>>}]

IsEmpty(c) == IF c.kind = "Array" THEN Len(c.elems) = 0 ELSE c.elems = {}

\* ---- the version allocator ----
\* nextTreeStateVersion++ : the value before the increment, and the new counter
getNextTreeStateVersion_Stuck(n) == [value |-> n, next |-> n]
getNextTreeStateVersion_PreIncrement(n) == [value |-> n + 1, next |-> n + 1]
getNextTreeStateVersion_Saturates(n) == [value |-> n, next |-> IF n < 1 THEN n + 1 ELSE n]
getNextTreeStateVersion(n) == [value |-> n, next |-> n + 1]

\* ---- TreeState ----
makeEmptyTreeState_TwoVersions(n) ==
    LET v == getNextTreeStateVersion(getNextTreeStateVersion(n).next)
    IN  [tree |-> [version |-> v.value,
                   transactionMetadata |-> {},
                   dirtyAtoms |-> {},
                   atomValues |-> {},
                   nonvalidatedAtoms |-> {}],
         next |-> v.next,
         issued |-> <<getNextTreeStateVersion(n).value, v.value>>]
makeEmptyTreeState_Peeks(n) ==
    [tree |-> [version |-> n,
               transactionMetadata |-> {},
               dirtyAtoms |-> {},
               atomValues |-> {},
               nonvalidatedAtoms |-> {}],
     next |-> n,
     issued |-> <<>>]
\* issued: the values getNextTreeStateVersion returned during the call
makeEmptyTreeState(n) ==
    LET v == getNextTreeStateVersion(n)
    IN  [tree |-> [version |-> v.value,
                   transactionMetadata |-> {},
                   dirtyAtoms |-> {},
                   atomValues |-> {},
                   nonvalidatedAtoms |-> {}],
         next |-> v.next,
         issued |-> <<v.value>>]

\* ---- StoreState ----
ContainerFields == {"knownAtoms", "knownSelectors", "transactionSubscriptions",
                    "nodeTransactionSubscriptions", "queuedComponentCallbacks",
                    "suspendedComponentResolvers", "nodeToComponentSubscriptions",
                    "graphsByVersion", "versionsUsedByComponent"}

\* the object literal of makeStoreState: treeState is a reference into the
\* TreeState heap ts; the new containers are appended to h in the order the
\* literal creates them.  The function holds a reference to treeState, so the
\* TreeState heap is part of what it returns.
StoreStateLiteral(treeState, ts, h) ==
    LET b == Len(h)
    IN  [store |-> [currentTree |-> treeState,
                    nextTree |-> 0,
                    knownAtoms |-> b + 1,
                    knownSelectors |-> b + 2,
                    transactionSubscriptions |-> b + 3,
                    nodeTransactionSubscriptions |-> b + 4,
                    queuedComponentCallbacks |-> b + 5,
                    suspendedComponentResolvers |-> b + 6,
                    nodeToComponentSubscriptions |-> b + 7,
                    graphsByVersion |-> b + 9,
                    versionsUsedByComponent |-> b + 10],
         heap |-> h \o <<NewSet, NewSet, NewMap, NewMap, NewArray, NewSet, NewMap,
                         graph, MapSet(NewMap, ts[treeState].version, b + 8), NewMap>>,
         trees |-> ts]

makeStoreState_NextIsCurrent(treeState, ts, h) ==
    [StoreStateLiteral(treeState, ts, h) EXCEPT !.store.nextTree = treeState]
makeStoreState_NoGraph(treeState, ts, h) ==
    [StoreStateLiteral(treeState, ts, h) EXCEPT !.heap[Len(h) + 9] = NewMap]
makeStoreState_KeyZero(treeState, ts, h) ==
    [StoreStateLiteral(treeState, ts, h) EXCEPT
        !.heap[Len(h) + 9] = MapSet(NewMap, 0, Len(h) + 8)]
makeStoreState_SharedSet(treeState, ts, h) ==
    [StoreStateLiteral(treeState, ts, h) EXCEPT !.store.knownAtoms = 1]
makeStoreState_ClearsDirty(treeState, ts, h) ==
    [StoreStateLiteral(treeState, ts, h) EXCEPT !.trees[treeState].dirtyAtoms = {}]
makeStoreState(treeState, ts, h) == StoreStateLiteral(treeState, ts, h)

\* makeEmptyStoreState(): makeStoreState(makeEmptyTreeState())
makeEmptyStoreState(n, ts, h) ==
    LET t == makeEmptyTreeState(n)
        ts2 == Append(ts, t.tree)
        s == makeStoreState(Len(ts2), ts2, h)
    IN  [store |-> s.store, heap |-> s.heap, trees |-> s.trees, next |-> t.next,
         issued |-> t.issued]

NoCall == [op |-> "none", pre |-> 0, value |-> -1, tree |-> 0, store |-> 0]

Init ==
    /\ nextTreeStateVersion = 0
    /\ trees = <<>>
    /\ heap = <<>>
    /\ stores = <<>>
    /\ returned = <<>>
    /\ direct = {}
    /\ madeBy = <<>>
    /\ versionLog = <<>>
    /\ mutations = 0
    /\ last = NoCall

\* a caller calls getNextTreeStateVersion() itself
GetNextTreeStateVersionCall ==
    /\ Len(returned) < MaxAllocs
    /\ LET v == getNextTreeStateVersion(nextTreeStateVersion)
       IN  /\ nextTreeStateVersion' = v.next
           /\ returned' = Append(returned, v.value)
           /\ direct' = direct \cup {v.value}
           /\ last' = [op |-> "getNextTreeStateVersion", pre |-> nextTreeStateVersion,
                       value |-> v.value, tree |-> 0, store |-> 0]
    /\ UNCHANGED <<trees, heap, stores, madeBy, versionLog, mutations>>

\* a caller calls makeEmptyTreeState()
MakeEmptyTreeStateCall ==
    /\ Len(returned) < MaxAllocs
    /\ Len(trees) < MaxTrees
    /\ LET r == makeEmptyTreeState(nextTreeStateVersion)
       IN  /\ nextTreeStateVersion' = r.next
           /\ trees' = Append(trees, r.tree)
           /\ madeBy' = Append(madeBy, "makeEmptyTreeState")
           /\ returned' = returned \o r.issued
           /\ last' = [op |-> "makeEmptyTreeState", pre |-> nextTreeStateVersion,
                       value |-> r.tree.version, tree |-> Len(trees) + 1, store |-> 0]
    /\ UNCHANGED <<heap, stores, direct, versionLog, mutations>>

\* a caller builds a TreeState object of its own (a snapshot it kept, a test fixture)
CallerTreeState ==
    /\ Len(trees) < MaxTrees
    /\ \E v \in ForeignVersions :
          /\ trees' = Append(trees, [version |-> v,
                                     transactionMetadata |-> {},
                                     dirtyAtoms |-> NodeKeys,
                                     atomValues |-> {<<n, 1>> : n \in NodeKeys},
                                     nonvalidatedAtoms |-> {}])
          /\ madeBy' = Append(madeBy, "caller")
          /\ last' = [op |-> "callerTreeState", pre |-> nextTreeStateVersion,
                      value |-> v, tree |-> Len(trees) + 1, store |-> 0]
    /\ UNCHANGED <<nextTreeStateVersion, heap, stores, returned, direct, versionLog,
                   mutations>>

\* a caller calls makeStoreState(t) with a TreeState it holds
MakeStoreStateCall ==
    /\ Len(stores) < MaxStores
    /\ \E t \in 1..Len(trees) :
          LET r == makeStoreState(t, trees, heap)
          IN  /\ stores' = Append(stores, r.store)
              /\ heap' = r.heap
              /\ trees' = r.trees
              /\ versionLog' = Append(versionLog, <<r.trees[r.store.currentTree].version>>)
              /\ last' = [op |-> "makeStoreState", pre |-> nextTreeStateVersion,
                          value |-> -1, tree |-> t, store |-> Len(stores) + 1]
    /\ UNCHANGED <<nextTreeStateVersion, returned, direct, madeBy, mutations>>

\* a caller calls makeEmptyStoreState()
MakeEmptyStoreStateCall ==
    /\ Len(returned) < MaxAllocs
    /\ Len(trees) < MaxTrees
    /\ Len(stores) < MaxStores
    /\ LET r == makeEmptyStoreState(nextTreeStateVersion, trees, heap)
       IN  /\ nextTreeStateVersion' = r.next
           /\ returned' = returned \o r.issued
           /\ trees' = r.trees
           /\ madeBy' = Append(madeBy, "makeEmptyTreeState")
           /\ heap' = r.heap
           /\ stores' = Append(stores, r.store)
           /\ versionLog' = Append(versionLog, <<r.trees[r.store.currentTree].version>>)
           /\ last' = [op |-> "makeEmptyStoreState", pre |-> nextTreeStateVersion,
                       value |-> -1, tree |-> r.store.currentTree,
                       store |-> Len(stores) + 1]
    /\ UNCHANGED <<direct, mutations>>

\* the transform t => addAtom(t, k, 1) handed to replaceState
addAtom(t, k, val) ==
    [t EXCEPT !.atomValues = {e \in @ : e[1] # k} \cup {<<k, val>>},
              !.dirtyAtoms = @ \cup {k}]

\* Store.replaceState(update): the candidate is update applied to the pending
\* nextTree, or to currentTree when none is pending, under a freshly allocated
\* version; a candidate whose version is not above currentTree.version is a
\* version-ordering violation, surfaced at the call, and nothing is installed.
\* The graph of the new version is installed with the candidate.
ReplaceState(s, k) ==
    /\ Len(returned) < MaxAllocs
    /\ Len(trees) < MaxTrees
    /\ LET st == stores[s]
           base == IF st.nextTree # 0 THEN st.nextTree ELSE st.currentTree
           v == getNextTreeStateVersion(nextTreeStateVersion)
           candidate == [addAtom(trees[base], k, 1) EXCEPT !.version = v.value]
           ok == v.value > trees[st.currentTree].version
       IN  /\ nextTreeStateVersion' = v.next
           /\ returned' = Append(returned, v.value)
           /\ IF ok
              THEN /\ trees' = Append(trees, candidate)
                   /\ madeBy' = Append(madeBy, "replaceState")
                   /\ stores' = [stores EXCEPT ![s].nextTree = Len(trees) + 1]
                   /\ heap' = Append([heap EXCEPT ![st.graphsByVersion] =
                                         MapSet(@, v.value, Len(heap) + 1)], graph)
              ELSE UNCHANGED <<trees, madeBy, stores, heap>>
           /\ last' = [op |-> IF ok THEN "replaceState" ELSE "replaceStateFailed",
                       pre |-> nextTreeStateVersion, value |-> v.value,
                       tree |-> IF ok THEN Len(trees) + 1 ELSE 0, store |-> s]
    /\ UNCHANGED <<direct, versionLog, mutations>>

\* the commit of a transaction: nextTree is promoted to currentTree and the
\* queued component callbacks are flushed
Commit(s) ==
    /\ stores[s].nextTree # 0
    /\ stores' = [stores EXCEPT ![s].currentTree = stores[s].nextTree,
                                ![s].nextTree = 0]
    /\ heap' = [heap EXCEPT ![stores[s].queuedComponentCallbacks].elems = <<>>]
    /\ versionLog' = [versionLog EXCEPT
                         ![s] = Append(@, trees[stores[s].nextTree].version)]
    /\ last' = [op |-> "commit", pre |-> nextTreeStateVersion, value |-> -1,
                tree |-> stores[s].nextTree, store |-> s]
    /\ UNCHANGED <<nextTreeStateVersion, trees, returned, direct, madeBy, mutations>>

\* the container objects reachable from a StoreState: its nine containers and
\* the graphs its graphsByVersion holds
Refs(st, h) ==
    {st[f] : f \in ContainerFields} \cup {e[2] : e \in h[st.graphsByVersion].elems}

\* Set.add / Map.set / Array.push / a graph edge, on one container object
ContainerAdd(c, k) ==
    CASE c.kind = "Set" -> [c EXCEPT !.elems = @ \cup {k}]
      [] c.kind = "Map" -> MapSet(c, k, 1)
      [] c.kind = "Array" -> [c EXCEPT !.elems = Append(@, k)]
      [] c.kind = "Graph" -> [c EXCEPT !.elems = @ \cup {<<k, k>>}]

\* Set.clear / Map.clear / Array.length = 0, on one container object
ContainerClear(c) ==
    IF c.kind = "Array" THEN [c EXCEPT !.elems = <<>>] ELSE [c EXCEPT !.elems = {}]

\* a caller holding getState() of store s adds to one of its containers
\* (graphsByVersion takes its entries from the transaction protocol only)
StoreAdd(s) ==
    /\ mutations < MaxMutations
    /\ \E r \in Refs(stores[s], heap) \ {stores[s].graphsByVersion}, k \in NodeKeys :
          /\ heap' = [heap EXCEPT ![r] = ContainerAdd(@, k)]
          /\ last' = [op |-> "add", pre |-> nextTreeStateVersion, value |-> r,
                      tree |-> 0, store |-> s]
    /\ mutations' = mutations + 1
    /\ UNCHANGED <<nextTreeStateVersion, trees, stores, returned, direct, madeBy,
                   versionLog>>

\* a caller holding getState() of store s empties one of its containers
StoreClear(s) ==
    /\ mutations < MaxMutations
    /\ \E r \in Refs(stores[s], heap) :
          /\ ~IsEmpty(heap[r])
          /\ heap' = [heap EXCEPT ![r] = ContainerClear(@)]
          /\ last' = [op |-> "clear", pre |-> nextTreeStateVersion, value |-> r,
                      tree |-> 0, store |-> s]
    /\ mutations' = mutations + 1
    /\ UNCHANGED <<nextTreeStateVersion, trees, stores, returned, direct, madeBy,
                   versionLog>>

Next ==
    \/ GetNextTreeStateVersionCall
    \/ MakeEmptyTreeStateCall
    \/ CallerTreeState
    \/ MakeStoreStateCall
    \/ MakeEmptyStoreStateCall
    \/ \E s \in 1..Len(stores), k \in NodeKeys : ReplaceState(s, k)
    \/ \E s \in 1..Len(stores) : Commit(s)
    \/ \E s \in 1..Len(stores) : StoreAdd(s)
    \/ \E s \in 1..Len(stores) : StoreClear(s)

\* the allocator, the factories and the transaction protocol
NextCore ==
    \/ GetNextTreeStateVersionCall
    \/ MakeEmptyTreeStateCall
    \/ CallerTreeState
    \/ MakeStoreStateCall
    \/ MakeEmptyStoreStateCall
    \/ \E s \in 1..Len(stores), k \in NodeKeys : ReplaceState(s, k)
    \/ \E s \in 1..Len(stores) : Commit(s)
SpecCore == Init /\ [][NextCore]_vars
\* the factories and the callers' edits of the containers
NextIso ==
    \/ MakeEmptyTreeStateCall
    \/ MakeStoreStateCall
    \/ MakeEmptyStoreStateCall
    \/ \E s \in 1..Len(stores) : StoreAdd(s)
    \/ \E s \in 1..Len(stores) : StoreClear(s)
SpecIso == Init /\ [][NextIso]_vars
\* everything together
Spec == Init /\ [][Next]_vars

\* ---- properties ----
ModuleTrees == {i \in 1..Len(trees) : madeBy[i] = "makeEmptyTreeState"}
GraphKeys(st, h) == {e[1] : e \in h[st.graphsByVersion].elems}
EmptyTree(t) ==
    /\ t.dirtyAtoms = {}
    /\ t.atomValues = {}
    /\ t.nonvalidatedAtoms = {}
    /\ t.transactionMetadata = {}

\* C1: the first value getNextTreeStateVersion returns is 0, and every later
\* value, whoever asked for it, is strictly greater than every earlier one.
C1_VersionsStrictlyIncrease ==
    /\ Len(returned) > 0 => returned[1] = 0
    /\ \A i, j \in 1..Len(returned) : i < j => returned[i] < returned[j]
C1_Witness ==
    /\ Len(returned) = MaxAllocs
    /\ direct # {}
    /\ Cardinality(direct) < Len(returned)
    /\ Len(stores) > 0
    /\ last.op = "makeEmptyTreeState"

\* C2 as stated: every makeEmptyStoreState() returns a store whose currentTree
\* has version 0, with no nextTree and one graph, keyed by version 0.
C2_EveryEmptyStoreHasVersionZero ==
    last.op = "makeEmptyStoreState" =>
        LET st == stores[last.store]
        IN  /\ trees[st.currentTree].version = 0
            /\ st.nextTree = 0
            /\ Cardinality(heap[st.graphsByVersion].elems) = 1
            /\ GraphKeys(st, heap) = {0}
\* C2 amended: makeEmptyStoreState() returns a store whose currentTree has the
\* next unissued version, which is the number of versions allocated before
\* the call (0 exactly for the first allocation of the runtime), with no
\* nextTree and exactly one graph, keyed by currentTree.version.
C2_EmptyStoreHasNextVersion ==
    last.op = "makeEmptyStoreState" =>
        LET st == stores[last.store]
            v == trees[st.currentTree].version
        IN  /\ v = Len(returned) - 1
            /\ v = last.pre
            /\ st.nextTree = 0
            /\ Cardinality(heap[st.graphsByVersion].elems) = 1
            /\ GraphKeys(st, heap) = {v}
C2_Witness ==
    /\ last.op = "makeEmptyStoreState"
    /\ last.pre > 0
    /\ Len(stores) = 2

\* C3: makeStoreState(t) returns a store whose currentTree is t itself, with
\* no nextTree, with every set, map and queue empty, and with graphsByVersion
\* holding exactly one entry: an empty graph under the key t.version.
C3_MakeStoreStateResult ==
    last.op = "makeStoreState" =>
        LET st == stores[last.store]
        IN  /\ st.currentTree = last.tree
            /\ st.nextTree = 0
            /\ \A f \in ContainerFields \ {"graphsByVersion"} : IsEmpty(heap[st[f]])
            /\ heap[st.knownAtoms].kind = "Set"
            /\ heap[st.queuedComponentCallbacks].kind = "Array"
            /\ Cardinality(heap[st.graphsByVersion].elems) = 1
            /\ \A e \in heap[st.graphsByVersion].elems :
                  /\ e[1] = trees[last.tree].version
                  /\ heap[e[2]] = graph
C3_Witness ==
    /\ last.op = "makeStoreState"
    /\ madeBy[last.tree] = "caller"
    /\ trees[last.tree].version = MaxAllocs
    /\ trees[last.tree].atomValues # {}

\* what C4 asks of one step
C4_Step ==
    (/\ Len(trees') = Len(trees) + 1
     /\ madeBy'[Len(trees')] = "makeEmptyTreeState") =>
        /\ Len(returned') = Len(returned) + 1
        /\ nextTreeStateVersion' = nextTreeStateVersion + 1
        /\ trees'[Len(trees')].version = returned'[Len(returned')]
        /\ EmptyTree(trees'[Len(trees')])
        /\ \A i \in 1..Len(trees) : trees'[i] = trees[i]
        /\ last'.op = "makeEmptyTreeState" =>
              /\ stores' = stores
              /\ heap' = heap
              /\ last'.tree = Len(trees')
\* C4: a call of makeEmptyTreeState allocates exactly one version and returns
\* a tree carrying it whose dirtyAtoms, atomValues, nonvalidatedAtoms and
\* transactionMetadata are empty; called on its own it changes nothing but
\* the counter, which goes up by one.
C4_MakeEmptyTreeState == [][C4_Step]_vars
C4_Witness ==
    /\ last.op = "makeEmptyTreeState"
    /\ last.pre > 0
    /\ Len(stores) > 0
    /\ \E s \in 1..Len(stores) : stores[s].nextTree # 0

\* C5: no version is used twice: two distinct trees made by makeEmptyTreeState
\* (on its own or inside makeEmptyStoreState, for whichever root) carry
\* different versions, and none carries a version a direct caller of
\* getNextTreeStateVersion was given.
C5_VersionsNeverReused ==
    /\ \A i, j \in ModuleTrees : i # j => trees[i].version # trees[j].version
    /\ \A i \in ModuleTrees : trees[i].version \notin direct
C5_Witness ==
    /\ Len(stores) = 2
    /\ stores[1].currentTree # stores[2].currentTree
    /\ {stores[1].currentTree, stores[2].currentTree} \subseteq ModuleTrees
    /\ direct # {}

\* what C6 asks of one step
C6_Step ==
    /\ Len(trees') >= Len(trees)
    /\ \A i \in 1..Len(trees) : trees'[i] = trees[i]
    /\ last'.op = "replaceState" =>
          LET st == stores[last'.store]
              t == trees'[last'.tree]
          IN  /\ last'.tree = Len(trees) + 1
              /\ t.version # trees[st.currentTree].version
              /\ st.nextTree # 0 => t.version # trees[st.nextTree].version
C9_Step ==
    /\ last'.op = "makeStoreState" =>
          /\ nextTreeStateVersion' = nextTreeStateVersion
          /\ returned' = returned
          /\ GraphKeys(stores'[last'.store], heap') = {trees[last'.tree].version}
    /\ last'.op \in {"makeEmptyTreeState", "makeEmptyStoreState"} =>
          /\ nextTreeStateVersion' = nextTreeStateVersion + 1
          /\ Len(returned') = Len(returned) + 1
          /\ trees'[last'.tree].version = nextTreeStateVersion
    /\ last'.op = "getNextTreeStateVersion" =>
          /\ last'.value = nextTreeStateVersion
          /\ nextTreeStateVersion' = nextTreeStateVersion + 1
    /\ \A n \in 1..Len(returned') : returned'[n] = n - 1
\* C9: makeStoreState allocates nothing and keys its graph by t.version,
\* issued or not; makeEmptyTreeState and makeEmptyStoreState allocate exactly
\* one version each; the n-th allocation of the runtime returns n - 1.
C9_ExactConsumption == [][C9_Step]_vars
C9_Witness ==
    /\ last.op = "makeStoreState"
    /\ trees[last.tree].version = MaxAllocs
    /\ nextTreeStateVersion = 2
    /\ direct # {}

\* what C10 asks of one step
C10_Step ==
    /\ \A s \in 1..Len(stores') :
          Cardinality(Refs(stores'[s], heap')) =
              Cardinality(ContainerFields) +
              Cardinality(heap'[stores'[s].graphsByVersion].elems)
    /\ \A s1, s2 \in 1..Len(stores') :
          s1 # s2 => Refs(stores'[s1], heap') \cap Refs(stores'[s2], heap') = {}
    /\ last'.op \in {"add", "clear"} =>
          \A s2 \in 1..Len(stores) :
              s2 # last'.store =>
                  /\ stores'[s2] = stores[s2]
                  /\ \A r \in Refs(stores[s2], heap) : heap'[r] = heap[r]
\* C10: two stores share no container: the nine containers and the seeded
\* graph of a store are objects of its own, so an edit of a container of one
\* store leaves the containers of every other store as they were, also when
\* both stores were built from the same tree.
C10_StoresIsolated == [][C10_Step]_vars
C10_Witness ==
    /\ Len(stores) = 2
    /\ stores[1].currentTree = stores[2].currentTree
    /\ GraphKeys(stores[1], heap) = GraphKeys(stores[2], heap)
    /\ last.op = "add"
    /\ \E f \in ContainerFields :
          /\ ~IsEmpty(heap[stores[last.store][f]])
          /\ f # "graphsByVersion"
          /\ IsEmpty(heap[stores[3 - last.store][f]])
====
